---- MODULE Spec2Model ----
(***************************************************************************)
(* P2MP-FTP: one sender (p2mpclient.c) transfers a file to numServers      *)
(* receivers (p2mpserver.c) with a per-receiver stop-and-wait ARQ over an  *)
(* unreliable datagram channel.                                            *)
(*                                                                         *)
(* The sender is called the client and a receiver a server, as in the      *)
(* source.  Bytes are numbers 0..255; int16_t values are numbers           *)
(* -32768..32767.  Loss probabilities are counted in units of 1/200, so    *)
(* that 0, 0.005, 0.01, ..., 0.99, 0.995, 1.0 are 0, 1, 2, ..., 198, 199,  *)
(* 200.                                                                    *)
(***************************************************************************)
EXTENDS Integers, Sequences, FiniteSets, TLC

\* ------------------------------------------------------------------ bounds
\* longest source file of the model, in bytes
MaxFileLen == 2
\* largest MSS given on the command line of the model
MaxMss == 2
\* largest number of receivers of the model
MaxServers == 2
\* how often a receiver process may be started again during one transfer
MaxRestarts == 1
\* the send counters saturate here
MaxCount == 2
MaxBuf == 3
MaxCalls == 4

\* ------------------------------------------------------- program constants
DATA_PKT == 21845
ACK_PKT == 43690
INVALID_SEQ_NO == -1
MAX_MSS == 1024
\* rand() % 100
RandMod == 100

\* the byte values a source file of the model is made of
FileBytes == {0, 1}
\* the loss probabilities a receiver of the model is started with (1/200):
\* 0.5 and 1.0
LossProbs == {100, 200}
\* every loss probability in [0,1] in steps of 0.005
AllLossProbs == 0..200

Servers == 0..(MaxServers - 1)

VARIABLES
  \* command line and environment
  file, mss, numServers, packetLossProb,
  \* p2mpclient.c
  pcC, segmentNum, serverNum, ackReceived, packet, filePos,
  \* p2mpserver.c, one process per receiver
  pcS, expectedSeqNum, lastSeqNum, sink,
  \* datagrams in flight: client -> server r, server r -> client
  dataChan, ackChan,
  \* history: what was appended to the sink, what was transmitted, how each
  \* (segment, receiver) retry loop ended, how many sends, how many restarts
  sinkSeqs, sent, outcome, dataSent, ackSent, restarts,
  \* the loss simulation's last draw and what it decided
  randNum, lossOutcome,
  \* the functions checked on their own
  ckBuffer, ckBit, ckSums, bufferSizeArg, dataWritten,
  \* arrayList.c: the list, the calls made on it
  listSize, listSlots, listWrite, listPc, listCalls

inputs == <<file, mss, numServers, packetLossProb>>
clientVars == <<pcC, segmentNum, serverNum, ackReceived, packet, filePos>>
serverVars == <<pcS, expectedSeqNum, lastSeqNum, sink>>
chanVars == <<dataChan, ackChan>>
histVars == <<sinkSeqs, sent, outcome, dataSent, ackSent, restarts>>
lossVars == <<randNum, lossOutcome>>
\* calculateChecksum alone: a buffer, the bit inverted in it, the checksums
\* of the buffer and of the buffer with the bit inverted
ckVars == <<ckBuffer, ckBit, ckSums>>
\* the writes of sendPacket alone: its argument bufferSize and the indices of
\* packet.data it has written
pktVars == <<bufferSizeArg, dataWritten>>
\* arrayList.c alone: list->size, the number of pointers the memory at
\* list->data has room for (0: data is NULL), the index add has just written,
\* whether the process still runs, and the calls made so far
listVars == <<listSize, listSlots, listWrite, listPc, listCalls>>
pureVars == <<ckVars, pktVars, listVars>>
vars == <<inputs, clientVars, serverVars, chanVars, histVars, lossVars, pureVars>>

\* ----------------------------------------------------------- pure helpers
\* conversion of an int to int16_t (the wrap-around gcc implements)
ToInt16(x) == ((x + 32768) % 65536) - 32768

\* ((buffer[i] << 8) & 0xFF00) + (buffer[i+1] & 0xFF), stored in an int16_t
Word16(hi, lo) == ToInt16((hi % 256) * 256 + (lo % 256))

RECURSIVE SumWords(_, _, _, _)
\* the for loop of calculateChecksum; i is the C index (0-based)
SumWords(buffer, bufferSize, i, sum) ==
  IF i < bufferSize - 1
    THEN SumWords(buffer, bufferSize, i + 2,
                  ToInt16(sum + Word16(buffer[i + 1], buffer[i + 2])))
    ELSE sum

\* a checksum that leaves the odd last byte out
OddByteIgnored(buffer, bufferSize, sum) == sum

\* sum after the odd last byte has been added
OddByte(buffer, bufferSize, sum) ==
  IF bufferSize % 2 # 0
    THEN ToInt16(sum + Word16(buffer[bufferSize], 0))
    ELSE sum

\* ~sum on an int16_t
Complement16(sum) == -sum - 1

calculateChecksum(buffer, bufferSize) ==
  Complement16(OddByte(buffer, bufferSize, SumWords(buffer, bufferSize, 0, 0)))

\* strncpy(dest, src, n): the bytes of src up to its first zero byte, and zero
\* bytes from there to n
Strncpy(src, n) ==
  [i \in 1..n |-> IF \E j \in 1..i : src[j] = 0 THEN 0 ELSE src[i]]

\* int numSegments = (fileLength / mss) + 1
NumSegmentsOf(fileLength, m) == (fileLength \div m) + 1
numSegments == NumSegmentsOf(Len(file), mss)

\* bufferSize of loop iteration seg of main
BufferSizeOf(fileLength, m, seg) ==
  IF seg < NumSegmentsOf(fileLength, m) - 1 THEN m ELSE fileLength - (m * seg)

\* fread(buffer, 1, bufferSize, file) at file position pos
Fread(f, pos, bufferSize) ==
  LET nread == IF bufferSize <= Len(f) - pos THEN bufferSize ELSE Len(f) - pos
  IN  [i \in 1..nread |-> f[pos + i]]

\* the packet sendPacket builds: header and packet.data[0..bufferSize-1]
BuildPacket(seg, buffer, bufferSize) ==
  LET data == Strncpy(buffer, bufferSize)
  IN  [seqNum |-> seg, checksum |-> calculateChecksum(data, bufferSize),
       type |-> DATA_PKT, data |-> data]

\* the ACK the server builds
BuildAck(seq) == [seqNum |-> seq, checksum |-> 0, type |-> ACK_PKT]

\* the comparison with its operands exchanged
LossSimulatedSwapped(r, p) == p <= 2 * r

\* randPacketLossProb <= packetLossProb, with randNum / 100 and the
\* probability both counted in 1/200
LossSimulated(r, p) == 2 * r <= p

\* a receiver that takes every packet up to the expected one as in sequence
InSequenceOrOlder(seq, expected) == seq <= expected

\* dataPacket.hdr.seqNum == expectedSeqNum
InSequence(seq, expected) == seq = expected

\* a counter that stops at MaxCount
Bump(c) == IF c < MaxCount THEN c + 1 ELSE c

Files == UNION {[1..n -> FileBytes] : n \in 0..MaxFileLen}

\* ------------------------------------------------------------------- Init
InitClient ==
  /\ pcC = "main"
  /\ segmentNum = 0
  /\ serverNum = 0
  /\ ackReceived = [r \in Servers |-> FALSE]
  /\ packet = BuildPacket(0, <<>>, 0)
  /\ filePos = 0

InitServers ==
  /\ pcS = [r \in Servers |-> "run"]
  /\ expectedSeqNum = [r \in Servers |-> 0]
  /\ lastSeqNum = [r \in Servers |-> INVALID_SEQ_NO]
  /\ sink = [r \in Servers |-> <<>>]

InitRest ==
  /\ dataChan = [r \in Servers |-> {}]
  /\ ackChan = [r \in Servers |-> {}]
  /\ sinkSeqs = [r \in Servers |-> <<>>]
  /\ sent = [r \in Servers |-> {}]
  /\ outcome = [r \in Servers |-> <<>>]
  /\ dataSent = 0
  /\ ackSent = 0
  /\ restarts = [r \in Servers |-> 0]
  /\ randNum = 0
  /\ lossOutcome = "none"

\* no list has been created
ListIdle ==
  /\ listSize = 0
  /\ listSlots = 0
  /\ listWrite = -1
  /\ listPc = "none"
  /\ listCalls = <<>>

\* the functions checked on their own are not running
PureIdle ==
  /\ ckBuffer = <<>>
  /\ ckBit = -1
  /\ ckSums = <<>>
  /\ bufferSizeArg = 0
  /\ dataWritten = {}
  /\ ListIdle

Init ==
  /\ file \in Files
  /\ mss \in 1..MaxMss
  /\ numServers \in 1..MaxServers
  /\ packetLossProb \in [Servers -> LossProbs]
  /\ \A r \in Servers : r >= numServers => packetLossProb[r] = 0
  /\ InitClient
  /\ InitServers
  /\ InitRest
  /\ PureIdle

\* ----------------------------------------------------------------- client
\* sendPacket up to its for loop, and the first iteration's reset
BeginSendPacket(seg, buffer, bufferSize) ==
  /\ packet' = BuildPacket(seg, buffer, bufferSize)
  /\ serverNum' = 0
  /\ ackReceived' = [ackReceived EXCEPT ![0] = FALSE]
  /\ pcC' = "send"

\* one iteration of main's while loop up to the call of sendPacket, or the
\* call that signals the end of the file
MainStep ==
  /\ pcC = "main"
  /\ IF segmentNum < numSegments
       THEN LET bufferSize == BufferSizeOf(Len(file), mss, segmentNum)
                buffer == Fread(file, filePos, bufferSize)
            IN  IF Len(buffer) # bufferSize
                  THEN /\ pcC' = "fatal"
                       /\ UNCHANGED <<serverNum, ackReceived, packet, filePos>>
                  ELSE /\ BeginSendPacket(segmentNum, buffer, bufferSize)
                       /\ filePos' = filePos + bufferSize
       ELSE /\ BeginSendPacket(segmentNum, <<>>, 0)
            /\ UNCHANGED filePos
  /\ UNCHANGED <<segmentNum, inputs, serverVars, chanVars, histVars, lossVars, pureVars>>

\* sendto at the top of the retry loop
SendTo ==
  /\ pcC = "send"
  /\ dataChan' = [dataChan EXCEPT ![serverNum] = @ \cup {packet}]
  /\ sent' = [sent EXCEPT ![serverNum] = @ \cup {packet}]
  /\ dataSent' = Bump(dataSent)
  /\ pcC' = "recv"
  /\ UNCHANGED <<segmentNum, serverNum, ackReceived, packet, filePos, ackChan,
                 sinkSeqs, outcome, ackSent, restarts, inputs, serverVars, lossVars, pureVars>>

\* a for loop that stops one server early: serverNum < numServers - 1
EndRetryLoopOneShort(how) ==
  /\ outcome' = [outcome EXCEPT ![serverNum] = Append(@, how)]
  /\ ackReceived' = [ackReceived EXCEPT ![serverNum] = (how = "ACKNOWLEDGED")]
  /\ IF serverNum + 1 < numServers - 1
       THEN /\ serverNum' = serverNum + 1
            /\ pcC' = "send"
            /\ UNCHANGED segmentNum
       ELSE /\ UNCHANGED serverNum
            /\ IF segmentNum < numSegments
                 THEN /\ segmentNum' = segmentNum + 1
                      /\ pcC' = "main"
                 ELSE /\ UNCHANGED segmentNum
                      /\ pcC' = "done"

\* the retry loop of serverNum has ended with result how: the for loop goes on
\* to the next server, or sendPacket returns to main
EndRetryLoop(how) ==
  /\ outcome' = [outcome EXCEPT ![serverNum] = Append(@, how)]
  /\ IF serverNum + 1 < numServers
       THEN /\ serverNum' = serverNum + 1
            /\ ackReceived' = [ackReceived EXCEPT ![serverNum] = (how = "ACKNOWLEDGED"),
                                                  ![serverNum + 1] = FALSE]
            /\ pcC' = "send"
            /\ UNCHANGED segmentNum
       ELSE /\ ackReceived' = [ackReceived EXCEPT ![serverNum] = (how = "ACKNOWLEDGED")]
            /\ UNCHANGED serverNum
            /\ IF segmentNum < numSegments
                 THEN /\ segmentNum' = segmentNum + 1
                      /\ pcC' = "main"
                 ELSE /\ UNCHANGED segmentNum
                      /\ pcC' = "done"

\* a client that takes every ACK for the one it waits for
AckVerdictAnyAck(ackSeq, seg) == "ACKNOWLEDGED"

\* what the client does with an ACK it received while waiting for seg
AckVerdict(ackSeq, seg) ==
  IF ackSeq = seg THEN "ACKNOWLEDGED"
  ELSE IF ackSeq = INVALID_SEQ_NO THEN "ABANDONED"
  ELSE "AWAITING_ACK"

\* recvfrom returns an ACK; keep: the network holds another copy of it
RecvAck(ack, keep) ==
  /\ pcC = "recv"
  /\ ack \in ackChan[serverNum]
  /\ ackChan' = [ackChan EXCEPT ![serverNum] = IF keep THEN @ ELSE @ \ {ack}]
  /\ LET verdict == AckVerdict(ack.seqNum, segmentNum)
     IN  IF verdict = "AWAITING_ACK"
           THEN /\ pcC' = "send"
                /\ UNCHANGED <<segmentNum, serverNum, ackReceived, outcome>>
           ELSE EndRetryLoop(verdict)
  /\ UNCHANGED <<packet, filePos, dataChan, sinkSeqs, sent, dataSent, ackSent,
                 restarts, inputs, serverVars, lossVars, pureVars>>

\* recvfrom returns nothing within 120 ms, or fails (its address length
\* argument serverAddrSize is never initialised): the else branch
Timeout ==
  /\ pcC = "recv"
  /\ pcC' = "send"
  /\ UNCHANGED <<segmentNum, serverNum, ackReceived, packet, filePos,
                 inputs, serverVars, chanVars, histVars, lossVars, pureVars>>

\* ----------------------------------------------------------------- server
\* what rand() % 100 can make of the loss simulation for probability p
LossDraws(p) == {LossSimulated(x, p) : x \in 0..(RandMod - 1)}

\* a server that answers every packet with the number it expects
AckSeqForExpected(seq, expected, last) == expected

\* the sequence number of the ACK sent for a data packet that passed the
\* checksum and the loss simulation
AckSeqFor(seq, expected, last) ==
  IF InSequence(seq, expected) THEN expected ELSE last

\* what fwrite appends for such a packet
Written(pkt, expected) ==
  IF InSequence(pkt.seqNum, expected) THEN pkt.data ELSE <<>>

\* the loop ends after a packet that was answered: buffer size 0 signals end
\* of file
EndOfFile(bufferSize) == bufferSize = 0

\* the branches of the loop body that answer the packet
Answer(r, pkt) ==
  LET bufferSize == Len(pkt.data)
      inSeq == InSequence(pkt.seqNum, expectedSeqNum[r])
  IN  /\ ackChan' = [ackChan EXCEPT ![r] = @ \cup
                       {BuildAck(AckSeqFor(pkt.seqNum, expectedSeqNum[r], lastSeqNum[r]))}]
      /\ ackSent' = Bump(ackSent)
      /\ sink' = [sink EXCEPT ![r] = @ \o Written(pkt, expectedSeqNum[r])]
      /\ sinkSeqs' = [sinkSeqs EXCEPT ![r] = IF inSeq THEN Append(@, pkt.seqNum) ELSE @]
      /\ lastSeqNum' = [lastSeqNum EXCEPT ![r] = IF inSeq THEN expectedSeqNum[r] ELSE @]
      /\ expectedSeqNum' = [expectedSeqNum EXCEPT ![r] = IF inSeq THEN @ + 1 ELSE @]
      /\ pcS' = [pcS EXCEPT ![r] = IF EndOfFile(bufferSize) THEN "done" ELSE "run"]

\* a server that tests for the end of the file before it drops a packet
ServerRecvEndsOnDrop(r, pkt, lost, keep) ==
  /\ r < numServers
  /\ pcS[r] = "run"
  /\ pkt \in dataChan[r]
  /\ dataChan' = [dataChan EXCEPT ![r] = IF keep THEN @ ELSE @ \ {pkt}]
  /\ IF pkt.type # DATA_PKT
       THEN /\ pcS' = [pcS EXCEPT ![r] = "fatal"]
            /\ UNCHANGED <<expectedSeqNum, lastSeqNum, sink, ackChan, sinkSeqs, ackSent>>
       ELSE IF calculateChecksum(pkt.data, Len(pkt.data)) # pkt.checksum \/ lost
         THEN /\ pcS' = [pcS EXCEPT ![r] = IF EndOfFile(Len(pkt.data)) THEN "done" ELSE "run"]
              /\ UNCHANGED <<expectedSeqNum, lastSeqNum, sink, ackChan, sinkSeqs, ackSent>>
       ELSE Answer(r, pkt)
  /\ UNCHANGED <<inputs, clientVars, sent, outcome, dataSent, restarts, lossVars, pureVars>>

\* one iteration of the server's while loop on datagram pkt; lost: the loss
\* simulation's verdict; keep: the network holds another copy of pkt
ServerRecv(r, pkt, lost, keep) ==
  /\ r < numServers
  /\ pcS[r] = "run"
  /\ pkt \in dataChan[r]
  /\ dataChan' = [dataChan EXCEPT ![r] = IF keep THEN @ ELSE @ \ {pkt}]
  /\ IF pkt.type # DATA_PKT
       THEN /\ pcS' = [pcS EXCEPT ![r] = "fatal"]
            /\ UNCHANGED <<expectedSeqNum, lastSeqNum, sink, ackChan, sinkSeqs, ackSent>>
       ELSE IF calculateChecksum(pkt.data, Len(pkt.data)) # pkt.checksum
         THEN UNCHANGED <<serverVars, ackChan, sinkSeqs, ackSent>>
       ELSE IF lost
         THEN UNCHANGED <<serverVars, ackChan, sinkSeqs, ackSent>>
       ELSE Answer(r, pkt)
  /\ UNCHANGED <<inputs, clientVars, sent, outcome, dataSent, restarts, lossVars, pureVars>>

\* the receiver process is started (again): its variables are initialised and
\* fopen(filename, "wb") truncates the output file
Restart(r) ==
  /\ r < numServers
  /\ restarts[r] < MaxRestarts
  /\ restarts' = [restarts EXCEPT ![r] = @ + 1]
  /\ pcS' = [pcS EXCEPT ![r] = "run"]
  /\ expectedSeqNum' = [expectedSeqNum EXCEPT ![r] = 0]
  /\ lastSeqNum' = [lastSeqNum EXCEPT ![r] = INVALID_SEQ_NO]
  /\ sink' = [sink EXCEPT ![r] = <<>>]
  /\ sinkSeqs' = [sinkSeqs EXCEPT ![r] = <<>>]
  /\ UNCHANGED <<inputs, clientVars, chanVars, sent, outcome, dataSent, ackSent, lossVars, pureVars>>

\* ---------------------------------------------------------------- channel
\* A channel is the set of the datagrams sent on it.  Receiving a datagram
\* with keep = TRUE leaves it in the set, so that it may be received again
\* (duplication) and in any order (reordering); a datagram that is never
\* received is lost.  LoseData and LoseAck remove a datagram for good.
LoseData(r, pkt) ==
  /\ pkt \in dataChan[r]
  /\ dataChan' = [dataChan EXCEPT ![r] = @ \ {pkt}]
  /\ UNCHANGED <<inputs, clientVars, serverVars, ackChan, histVars, lossVars, pureVars>>

LoseAck(r, ack) ==
  /\ ack \in ackChan[r]
  /\ ackChan' = [ackChan EXCEPT ![r] = @ \ {ack}]
  /\ UNCHANGED <<inputs, clientVars, serverVars, dataChan, histVars, lossVars, pureVars>>

\* every datagram the model holds
Packets == UNION {dataChan[r] : r \in Servers}
Acks == UNION {ackChan[r] : r \in Servers}

\* ------------------------------------------------------------------ specs
\* The transfer over a channel that loses, duplicates and reorders, with
\* receivers that may be started again.
Next ==
  \/ MainStep
  \/ SendTo
  \/ \E ack \in Acks : RecvAck(ack, TRUE)
  \/ Timeout
  \/ \E r \in Servers : \E pkt \in Packets :
       \E lost \in LossDraws(packetLossProb[r]) : ServerRecv(r, pkt, lost, TRUE)
  \/ \E r \in Servers : Restart(r)

Spec == Init /\ [][Next]_vars

\* The same transfer with datagrams that are consumed when received and may
\* be lost for good; a duplicate is a retransmission.  No receiver is started
\* again.  Fairness: the client and the servers keep running (every recvfrom
\* of the client returns, with an ACK or after the 120 ms), and the channel is
\* fair-lossy: datagrams sent again and again are received again and again,
\* and a loss simulation that can let a packet pass does so again and again.
FairLossProbs == {100, 198}

InitLossy ==
  /\ file \in Files
  /\ mss \in 1..MaxMss
  /\ numServers \in 1..MaxServers
  /\ packetLossProb \in [Servers -> FairLossProbs]
  /\ \A r \in Servers : r >= numServers => packetLossProb[r] = 100
  /\ InitClient
  /\ InitServers
  /\ InitRest
  /\ PureIdle

ClientRecv == \E ack \in Acks : RecvAck(ack, FALSE)

ServerAnswer(r) ==
  \E pkt \in Packets :
    /\ FALSE \in LossDraws(packetLossProb[r])
    /\ ServerRecv(r, pkt, FALSE, FALSE)

LossyNext ==
  \/ MainStep
  \/ SendTo
  \/ ClientRecv
  \/ Timeout
  \/ \E r \in Servers : \E pkt \in Packets :
       \E lost \in LossDraws(packetLossProb[r]) : ServerRecv(r, pkt, lost, FALSE)
  \/ \E r \in Servers : \E pkt \in Packets : LoseData(r, pkt)
  \/ \E r \in Servers : \E ack \in Acks : LoseAck(r, ack)

Fairness ==
  /\ WF_vars(MainStep)
  /\ WF_vars(SendTo)
  /\ WF_vars(ClientRecv \/ Timeout)
  /\ SF_vars(ClientRecv)
  /\ \A r \in Servers : SF_vars(ServerAnswer(r))

FairSpec == InitLossy /\ [][LossyNext]_vars /\ Fairness

\* The transfer over a loss-free channel that delivers every datagram once and
\* in time: the client's recvfrom times out only when no answer is on its way.
\* Every receiver runs with loss probability 0.
InitIdeal ==
  /\ file \in Files
  /\ mss \in 1..MaxMss
  /\ numServers \in 1..MaxServers
  /\ packetLossProb = [r \in Servers |-> 0]
  /\ InitClient
  /\ InitServers
  /\ InitRest
  /\ PureIdle

NoAnswerComing ==
  /\ ackChan[serverNum] = {}
  /\ dataChan[serverNum] = {} \/ pcS[serverNum] # "run"

IdealNext ==
  \/ MainStep
  \/ SendTo
  \/ \E ack \in Acks : RecvAck(ack, FALSE)
  \/ NoAnswerComing /\ Timeout
  \/ \E r \in Servers : \E pkt \in Packets :
       \E lost \in LossDraws(packetLossProb[r]) : ServerRecv(r, pkt, lost, FALSE)

IdealSpec == InitIdeal /\ [][IdealNext]_vars

\* The loss simulation alone: one draw of rand() % 100 against every loss
\* probability.
InitLoss ==
  /\ file = <<>>
  /\ mss = 1
  /\ numServers = 1
  /\ packetLossProb \in [Servers -> AllLossProbs]
  /\ \A r \in Servers : r >= numServers => packetLossProb[r] = 0
  /\ InitClient
  /\ InitServers
  /\ InitRest
  /\ PureIdle

\* lines 206-209 of the server: the draw and the comparison
DrawLoss ==
  /\ \E x \in 0..(RandMod - 1) :
       /\ randNum' = x
       /\ lossOutcome' = IF LossSimulated(x, packetLossProb[0]) THEN "drop" ELSE "pass"
  /\ UNCHANGED <<inputs, clientVars, serverVars, chanVars, histVars, pureVars>>

LossSpec == InitLoss /\ [][DrawLoss]_vars

\* ----------------------------------------------------------------- claims
Active == 0..(numServers - 1)

\* the sequence 0, 1, ..., k-1
UpTo(k) == [i \in 1..k |-> i - 1]

IsPrefix(a, b) == Len(a) <= Len(b) /\ \A i \in 1..Len(a) : a[i] = b[i]

\* C1: the sequence numbers of the payloads appended to a receiver's sink are
\* exactly 0, 1, ..., expectedSeqNum - 1, in that order.
C1_InOrderWrites ==
  \A r \in Servers : sinkSeqs[r] = UpTo(expectedSeqNum[r])

\* a receiver has written three payloads while copies of earlier packets are
\* still under way to it
C1_Witness ==
  \E r \in Servers :
    /\ Len(sinkSeqs[r]) >= 3
    /\ \E pkt \in dataChan[r] : pkt.seqNum < lastSeqNum[r]

\* C2: the sink of a receiver that has listened from the start is a prefix of
\* the source file, and is the source file when the receiver has terminated.
C2_SinkEqualsFile ==
  \A r \in Active :
    restarts[r] = 0 =>
      /\ IsPrefix(sink[r], file)
      /\ pcS[r] = "done" => sink[r] = file

\* C3: a checksum-valid, not loss-simulated data packet with an already
\* accepted sequence number is answered with an ACK of the last accepted
\* number and changes neither the sink nor expectedSeqNum nor lastSeqNum.
C3_DuplicateReAcked ==
  [][\A r \in Servers : \A pkt \in dataChan[r] :
       ( /\ lastSeqNum[r] # INVALID_SEQ_NO
         /\ pkt.seqNum >= 0
         /\ pkt.seqNum <= lastSeqNum[r]
         /\ pkt.type = DATA_PKT
         /\ calculateChecksum(pkt.data, Len(pkt.data)) = pkt.checksum
         /\ ServerRecv(r, pkt, FALSE, FALSE) )
       => /\ BuildAck(lastSeqNum[r]) \in ackChan'[r]
          /\ sink'[r] = sink[r]
          /\ expectedSeqNum'[r] = expectedSeqNum[r]
          /\ lastSeqNum'[r] = lastSeqNum[r]]_vars

\* a running receiver that has accepted packet 1 has a copy of packet 0 under
\* way to it, and no ACK of packet 1 is under way
C3_Witness ==
  \E r \in Servers :
    /\ pcS[r] = "run"
    /\ lastSeqNum[r] = 1
    /\ \E pkt \in dataChan[r] : pkt.seqNum = 0
    /\ ackChan[r] = {}

\* C4: over the fair-lossy channel every receiver that listens from the start
\* with a loss probability below 1 eventually terminates with the whole
\* source file in its sink.
C4_EventualDelivery ==
  \A r \in Servers :
    [](r \in Active /\ packetLossProb[r] < 200
         => <>(pcS[r] = "done" /\ sink[r] = file))

\* C5: over the fair-lossy channel, once the receivers (of loss probability
\* below 1) have run until the end of the stream, the sender eventually
\* terminates, whatever became of their ACKs.
C5_SenderTerminates ==
  (\A r \in Active : packetLossProb[r] < 200 /\ pcS[r] = "done") ~> (pcC = "done")

\* C6: a 0-byte file sent to one receiver with loss probability 0 over the
\* loss-free channel takes one data packet (sequence number 0, length 0) and
\* one ACK, and leaves the sink empty; no data packet 1 is sent.
C6_ZeroByteFile ==
  (file = <<>> /\ numServers = 1 /\ packetLossProb[0] = 0) =>
    /\ dataSent <= 1
    /\ ackSent <= 1
    /\ \A pkt \in sent[0] : pkt.seqNum = 0 /\ pkt.data = <<>>
    /\ \A ack \in ackChan[0] : ack.seqNum = 0
    /\ sink[0] = <<>>

\* ceil(fileLength / m)
CeilDiv(fileLength, m) == (fileLength + m - 1) \div m

Min(a, b) == IF a <= b THEN a ELSE b

\* C7: the sender emits the sequence numbers 0..ceil(L/MSS) only; the segments
\* before the last are the non-empty MSS-sized pieces of the file and the
\* last, ceil(L/MSS), alone has length 0.
C7_Segmentation ==
  LET last == CeilDiv(Len(file), mss)
  IN  \A r \in Servers : \A pkt \in sent[r] :
        /\ pkt.seqNum \in 0..last
        /\ Len(pkt.data) = IF pkt.seqNum < last
                             THEN Min(mss, Len(file) - mss * pkt.seqNum)
                             ELSE 0

\* C8: a receiver with loss probability 1.0 never sends an ACK, never writes
\* and never moves expectedSeqNum; the sender never gets beyond that receiver
\* and segment 0, never ends, and sends nothing but packet 0 to it.
C8_TotalLossStalls ==
  \A r \in Active :
    packetLossProb[r] = 200 =>
      /\ ackChan[r] = {}
      /\ sink[r] = <<>>
      /\ expectedSeqNum[r] = 0
      /\ lastSeqNum[r] = INVALID_SEQ_NO
      /\ pcS[r] = "run"
      /\ segmentNum = 0
      /\ serverNum <= r
      /\ pcC \in {"main", "send", "recv"}
      /\ outcome[r] = <<>>
      /\ \A pkt \in sent[r] : pkt = packet /\ pkt.seqNum = 0

\* the sender waits for such a receiver after it has sent packet 0 again
C8_Witness ==
  \E r \in Active :
    /\ packetLossProb[r] = 200
    /\ serverNum = r
    /\ pcC = "recv"
    /\ packet \in dataChan[r]
    /\ dataSent >= 2
    /\ restarts[r] = 1

\* C9: the loss simulation drops the packet if and only if the draw is
\* strictly below 100 times the loss probability.
C9_DropIffBelow ==
  lossOutcome # "none" =>
    (lossOutcome = "drop" <=> 2 * randNum < packetLossProb[0])

\* the segments whose retry loop has ended for receiver r
Ended(r) == 0..(Len(outcome[r]) - 1)

\* C10: segment n is transmitted to receiver j only after every receiver
\* before j has reached ACKNOWLEDGED or ABANDONED for n, and after all
\* receivers have for n-1; the sequence number advances only then.
C10_SequentialFanOut ==
  /\ \A j \in Active : \A pkt \in sent[j] :
       /\ \A i \in Active : i < j => pkt.seqNum \in Ended(i)
       /\ \A i \in Active : pkt.seqNum > 0 => (pkt.seqNum - 1) \in Ended(i)
  /\ \A i \in Active :
       /\ segmentNum > 0 => (segmentNum - 1) \in Ended(i)
       /\ \A k \in 1..Len(outcome[i]) : outcome[i][k] \in {"ACKNOWLEDGED", "ABANDONED"}

\* segment 1 has been transmitted to the second receiver after the first
\* receiver's retry loop for it was abandoned
C10_Witness ==
  /\ numServers >= 2
  /\ \E pkt \in sent[1] : pkt.seqNum = 1
  /\ Len(outcome[0]) >= 2
  /\ outcome[0][2] = "ABANDONED"

\* C11: the retry loop of (segmentNum, serverNum) is left only by an ACK of
\* segmentNum (ACKNOWLEDGED, ackReceived true) or by an ACK of
\* INVALID_SEQ_NO (ABANDONED, ackReceived false, the segment is not sent to
\* that receiver again); a timeout or any other ACK leads to the same packet
\* being sent again to the same receiver.
C11_RetryLoop ==
  [][LET r == serverNum
         n == segmentNum
     IN  /\ (pcC = "recv" /\ pcC' # "recv") =>
              \/ /\ \E ack \in ackChan[r] : ack.seqNum = n
                 /\ outcome'[r] = Append(outcome[r], "ACKNOWLEDGED")
                 /\ ackReceived'[r] = TRUE
                 /\ ~(pcC' = "send" /\ serverNum' = r /\ segmentNum' = n)
              \/ /\ \E ack \in ackChan[r] : ack.seqNum = INVALID_SEQ_NO
                 /\ n # INVALID_SEQ_NO
                 /\ outcome'[r] = Append(outcome[r], "ABANDONED")
                 /\ ackReceived'[r] = FALSE
                 /\ ~(pcC' = "send" /\ serverNum' = r /\ segmentNum' = n)
              \/ /\ outcome' = outcome
                 /\ ackReceived'[r] = FALSE
                 /\ pcC' = "send"
                 /\ serverNum' = r
                 /\ segmentNum' = n
                 /\ packet' = packet
         /\ outcome' # outcome =>
              /\ pcC = "recv"
              /\ \A i \in Servers : i # r => outcome'[i] = outcome[i]
         /\ (pcC = "send" /\ pcC' # "send") =>
              /\ pcC' = "recv" /\ serverNum' = r /\ segmentNum' = n
              /\ packet.seqNum = n
              /\ Len(outcome[r]) = n
              /\ packet \in dataChan'[r]]_vars

\* one retry loop has been abandoned and another one acknowledged, and the
\* sender waits again with an ACK of another segment under way to it
C11_Witness ==
  /\ \E r \in Active : \E k \in 1..Len(outcome[r]) : outcome[r][k] = "ABANDONED"
  /\ \E r \in Active : \E k \in 1..Len(outcome[r]) : outcome[r][k] = "ACKNOWLEDGED"
  /\ pcC = "recv"
  /\ \E ack \in ackChan[serverNum] : ack.seqNum \notin {segmentNum, INVALID_SEQ_NO}

\* C12: a receiver terminates normally only on a zero-length data packet whose
\* sequence number is expectedSeqNum; an out-of-sequence zero-length packet
\* is answered with lastSeqNum and does not end the receiver.
C12_EndOnlyInSequence ==
  [][\A r \in Servers :
       (pcS[r] = "run" /\ pcS'[r] = "done") =>
         /\ expectedSeqNum'[r] = expectedSeqNum[r] + 1
         /\ \E pkt \in dataChan[r] :
              pkt.seqNum = expectedSeqNum[r] /\ Len(pkt.data) = 0]_vars

\* ------------------------------------------------- a channel with noise
\* the checksum field with its lowest bit inverted
FlipChecksum(c) == IF c % 2 = 0 THEN c + 1 ELSE c - 1

\* the payload with the lowest bit of its first byte inverted
FlipData(data) == [data EXCEPT ![1] = 1 - @]

\* the datagrams under way to r that are not what the client sent
Noise(r) ==
  {pkt \in dataChan[r] :
     \/ pkt.type # DATA_PKT
     \/ calculateChecksum(pkt.data, Len(pkt.data)) # pkt.checksum}

\* recvfrom hands the server a data packet one bit of which was inverted on
\* the way: in the payload, or in the checksum field (one such datagram at a
\* time is under way to a receiver)
Corrupt(r, pkt, inData) ==
  /\ pkt \in dataChan[r]
  /\ Noise(r) = {}
  /\ pkt.type = DATA_PKT
  /\ calculateChecksum(pkt.data, Len(pkt.data)) = pkt.checksum
  /\ inData => Len(pkt.data) > 0
  /\ dataChan' = [dataChan EXCEPT ![r] = (@ \ {pkt}) \cup
                    {IF inData THEN [pkt EXCEPT !.data = FlipData(@)]
                               ELSE [pkt EXCEPT !.checksum = FlipChecksum(@)]}]
  /\ UNCHANGED <<inputs, clientVars, serverVars, ackChan, histVars, lossVars, pureVars>>

\* a datagram whose type tag is not DATA_PKT
StrayDatagram == [seqNum |-> 0, checksum |-> 0, type |-> ACK_PKT, data |-> <<>>]

\* recvfrom hands the server a datagram that is no data packet
Stray(r) ==
  /\ r < numServers
  /\ Noise(r) = {}
  /\ dataChan' = [dataChan EXCEPT ![r] = @ \cup {StrayDatagram}]
  /\ UNCHANGED <<inputs, clientVars, serverVars, ackChan, histVars, lossVars, pureVars>>

\* every receiver runs with loss probability 0.5
InitNoisy ==
  /\ file \in Files
  /\ mss \in 1..MaxMss
  /\ numServers \in 1..MaxServers
  /\ packetLossProb = [r \in Servers |-> 100]
  /\ InitClient
  /\ InitServers
  /\ InitRest
  /\ PureIdle

\* the channel delivers every datagram once and in time, as it was sent or
\* with an inverted bit, and delivers datagrams of other senders
NoisyNext ==
  \/ MainStep
  \/ SendTo
  \/ ClientRecv
  \/ NoAnswerComing /\ Timeout
  \/ \E r \in Servers : \E pkt \in Packets :
       \E lost \in LossDraws(packetLossProb[r]) : ServerRecv(r, pkt, lost, FALSE)
  \/ \E r \in Servers : \E pkt \in Packets : \E inData \in BOOLEAN : Corrupt(r, pkt, inData)
  \/ \E r \in Servers : Stray(r)

NoisySpec == InitNoisy /\ [][NoisyNext]_vars

\* C13: a datagram whose type tag is not DATA is ignored: no ACK is sent, the
\* sink, expectedSeqNum and lastSeqNum keep their values and the receiver
\* keeps running, able to accept the data packets that follow.
C13_NonDataIgnored ==
  [][\A r \in Servers : \A pkt \in dataChan[r] :
       (pkt.type # DATA_PKT /\ \E lost \in BOOLEAN : ServerRecv(r, pkt, lost, FALSE)) =>
         /\ ackChan' = ackChan
         /\ sink' = sink
         /\ expectedSeqNum' = expectedSeqNum
         /\ lastSeqNum' = lastSeqNum
         /\ pcS'[r] = "run"]_vars

\* C14: a data packet whose recomputed checksum differs from the checksum of
\* its header, or that the loss simulation selects, gets no ACK and leaves
\* the sink, expectedSeqNum and lastSeqNum as they are, and the receiver keeps
\* running, whatever the packet's sequence number and payload length.
C14_SilentDrop ==
  [][\A r \in Servers : \A pkt \in dataChan[r] :
       ( /\ pkt.type = DATA_PKT
         /\ \/ /\ calculateChecksum(pkt.data, Len(pkt.data)) # pkt.checksum
               /\ \E lost \in LossDraws(packetLossProb[r]) : ServerRecv(r, pkt, lost, FALSE)
            \/ /\ TRUE \in LossDraws(packetLossProb[r])
               /\ ServerRecv(r, pkt, TRUE, FALSE) )
       => /\ ackChan' = ackChan
          /\ ackSent' = ackSent
          /\ sink' = sink
          /\ expectedSeqNum' = expectedSeqNum
          /\ lastSeqNum' = lastSeqNum
          /\ pcS' = pcS
          /\ pcS[r] = "run"]_vars

\* a running receiver that has accepted a packet has under way to it the
\* zero-length packet it expects, with a wrong checksum, and its loss
\* simulation selects packets
C14_Witness ==
  \E r \in Servers : \E pkt \in dataChan[r] :
    /\ pcS[r] = "run"
    /\ TRUE \in LossDraws(packetLossProb[r])
    /\ lastSeqNum[r] # INVALID_SEQ_NO
    /\ pkt.type = DATA_PKT
    /\ Len(pkt.data) = 0
    /\ pkt.seqNum = expectedSeqNum[r]
    /\ calculateChecksum(pkt.data, Len(pkt.data)) # pkt.checksum

\* C15: in every state of a receiver lastSeqNum = expectedSeqNum - 1, which
\* is INVALID_SEQ_NO exactly when the receiver has accepted nothing; and the
\* ACK a receiver sends carries the number of the packet it accepted last,
\* that step included: the old expectedSeqNum for a packet in sequence,
\* lastSeqNum for one out of sequence, INVALID_SEQ_NO iff it has accepted
\* nothing yet.
C15_AckCarriesLastAccepted ==
  /\ [](\A r \in Servers :
          /\ lastSeqNum[r] = expectedSeqNum[r] - 1
          /\ lastSeqNum[r] = INVALID_SEQ_NO <=> sinkSeqs[r] = <<>>
          /\ sinkSeqs[r] # <<>> => lastSeqNum[r] = sinkSeqs[r][Len(sinkSeqs[r])])
  /\ [][\A r \in Servers : \A pkt \in dataChan[r] :
          ( /\ pkt.type = DATA_PKT
            /\ calculateChecksum(pkt.data, Len(pkt.data)) = pkt.checksum
            /\ ServerRecv(r, pkt, FALSE, TRUE) )
          => /\ ackChan'[r] = ackChan[r] \cup {BuildAck(lastSeqNum'[r])}
             /\ lastSeqNum'[r] = IF pkt.seqNum = expectedSeqNum[r]
                                   THEN expectedSeqNum[r] ELSE lastSeqNum[r]
             /\ BuildAck(INVALID_SEQ_NO) \in ackChan'[r] \ ackChan[r]
                  <=> (sinkSeqs'[r] = <<>> /\ BuildAck(INVALID_SEQ_NO) \notin ackChan[r])]_vars

\* a receiver that answered INVALID_SEQ_NO before it accepted anything has
\* since accepted packets 0 and 1 and has an older packet under way to it
C15_Witness ==
  \E r \in Servers :
    /\ BuildAck(INVALID_SEQ_NO) \in ackChan[r]
    /\ BuildAck(0) \in ackChan[r]
    /\ lastSeqNum[r] = 1
    /\ \E pkt \in dataChan[r] : pkt.seqNum = 0

\* C16: the payload of the data packet sendPacket builds is, byte for byte,
\* the bufferSize bytes read for that segment, zero bytes included, and the
\* checksum of its header is the checksum of those bytes.
C16_PayloadIsBytesRead ==
  (pcC \in {"send", "recv"} /\ segmentNum < numSegments) =>
    LET bufferSize == BufferSizeOf(Len(file), mss, segmentNum)
        buffer == Fread(file, filePos - bufferSize, bufferSize)
    IN  /\ packet.seqNum = segmentNum
        /\ packet.data = buffer
        /\ packet.checksum = calculateChecksum(buffer, bufferSize)

\* ------------------------------------------------ calculateChecksum alone
\* the bytes the buffers are made of: the ends and the middle of 0..255
ChecksumBytes == {0, 1, 127, 128, 255}

Buffers == UNION {[1..n -> ChecksumBytes] : n \in 1..MaxBuf}

\* byte b with bit j (0 the lowest) inverted
FlipBit(b, j) == IF (b \div (2 ^ j)) % 2 = 1 THEN b - 2 ^ j ELSE b + 2 ^ j

\* the buffer with bit k inverted, bit 8 * i + j being bit j of buffer[i]
FlipBufferBit(buf, k) == [buf EXCEPT ![(k \div 8) + 1] = FlipBit(@, k % 8)]

InitChecksum ==
  /\ file = <<>>
  /\ mss = 1
  /\ numServers = 1
  /\ packetLossProb = [r \in Servers |-> 0]
  /\ InitClient
  /\ InitServers
  /\ InitRest
  /\ ckBuffer \in Buffers
  /\ ckBit = -1
  /\ ckSums = <<>>
  /\ bufferSizeArg = 0
  /\ dataWritten = {}
  /\ ListIdle

\* calculateChecksum is called on the buffer and on the buffer with bit k
\* inverted
InvertBit(k) ==
  /\ ckBit = -1
  /\ k < 8 * Len(ckBuffer)
  /\ ckBit' = k
  /\ ckSums' = <<calculateChecksum(ckBuffer, Len(ckBuffer)),
                 calculateChecksum(FlipBufferBit(ckBuffer, k), Len(ckBuffer))>>
  /\ UNCHANGED <<inputs, clientVars, serverVars, chanVars, histVars, lossVars, ckBuffer, pktVars, listVars>>

ChecksumSpec == InitChecksum /\ [][\E k \in 0..(8 * MaxBuf - 1) : InvertBit(k)]_vars

RECURSIVE WordSum(_, _)
\* the sum of the big-endian 16-bit words of buf from byte i on, an odd last
\* byte being the high byte of a word padded with zero
WordSum(buf, i) ==
  IF i > Len(buf) THEN 0
  ELSE IF i = Len(buf) THEN 256 * buf[i]
  ELSE 256 * buf[i] + buf[i + 1] + WordSum(buf, i + 2)

\* the one's complement of the sum modulo 2^16, as an int16_t
ComplementOfWordSum(buf) == ToInt16(65535 - (WordSum(buf, 1) % 65536))

\* C17: calculateChecksum is the one's complement of the sum modulo 2^16 of
\* the big-endian 16-bit words of the buffer, and for every buffer of length
\* 1 or more, even or odd, inverting any single bit of it changes the value
\* of calculateChecksum.
C17_BitFlipChangesChecksum ==
  ckBit # -1 =>
    /\ ckSums[1] # ckSums[2]
    /\ ckSums[1] = ComplementOfWordSum(ckBuffer)
    /\ ckSums[2] = ComplementOfWordSum(FlipBufferBit(ckBuffer, ckBit))

\* the highest bit of the odd last byte of a buffer whose words sum up beyond
\* 2^16 was inverted
C17_Witness ==
  /\ ckBuffer = <<255, 255, 128>>
  /\ ckBit = 23
  /\ ckSums # <<>>

\* the payload of the packet of sequence number k sent to receiver r
PayloadOf(r, k) == (CHOOSE pkt \in sent[r] : pkt.seqNum = k).data

RECURSIVE Payloads(_, _)
\* the payloads of the packets 0..n sent to receiver r, one after the other
Payloads(r, n) == IF n < 0 THEN <<>> ELSE Payloads(r, n - 1) \o PayloadOf(r, n)

\* C18: over a channel that loses, duplicates, delays and reorders data
\* packets and ACKs, when the sender has marked segment n ACKNOWLEDGED for
\* receiver r (a receiver process running since the transfer began), r has
\* accepted n: its expectedSeqNum is above n and the payloads of the segments
\* 0..n are in its sink; and the sender never is at a segment beyond the one
\* r expects, so that no stale or duplicate ACK makes it skip a segment.
C18_AckedMeansAccepted ==
  \A r \in Active :
    restarts[r] = 0 =>
      /\ Len(outcome[r]) <= expectedSeqNum[r]
      /\ segmentNum <= expectedSeqNum[r]
      /\ \A k \in 1..Len(outcome[r]) :
           outcome[r][k] = "ACKNOWLEDGED" =>
             /\ expectedSeqNum[r] > k - 1
             /\ IsPrefix(UpTo(k), sinkSeqs[r])
             /\ IsPrefix(Payloads(r, k - 1), sink[r])

\* the sender, having had segments 0 and 1 acknowledged by r, waits for the
\* ACK of segment 2, which r has not accepted, while stale ACKs of 0 and 1
\* are under way to it
C18_Witness ==
  \E r \in Active :
    /\ restarts[r] = 0
    /\ pcC = "recv"
    /\ serverNum = r
    /\ segmentNum = 2
    /\ expectedSeqNum[r] = 2
    /\ outcome[r] = <<"ACKNOWLEDGED", "ACKNOWLEDGED">>
    /\ BuildAck(0) \in ackChan[r]
    /\ BuildAck(1) \in ackChan[r]

\* ------------------------------------------- the writes of sendPacket alone
\* the segment sizes taken from the command line: the ends of 1..MAX_MSS
MssValues == {1, 2, MAX_MSS - 1, MAX_MSS}

\* the lengths of the files sent
FileLengths == 0..(MAX_MSS + 1)

\* the values of bufferSize in the calls of sendPacket made by main for a
\* file of one of these lengths: one call per segment and the last call
BufferSizeArgs(m) ==
  UNION {{BufferSizeOf(len, m, seg) : seg \in 0..(NumSegmentsOf(len, m) - 1)} :
           len \in FileLengths}
    \cup {0}

\* the indices of dest that strncpy(dest, src, n) writes
StrncpyWrites(n) == 0..(n - 1)

\* the index of packet.data[bufferSize] = '\0'
TerminatorWrite(bufferSize) == {bufferSize}

InitSendPacket ==
  /\ file = <<>>
  /\ mss \in MssValues
  /\ numServers = 1
  /\ packetLossProb = [r \in Servers |-> 0]
  /\ InitClient
  /\ InitServers
  /\ InitRest
  /\ ckBuffer = <<>>
  /\ ckBit = -1
  /\ ckSums = <<>>
  /\ bufferSizeArg \in BufferSizeArgs(mss)
  /\ dataWritten = {}
  /\ ListIdle

\* lines 121 and 123 of sendPacket
WritePacketData ==
  /\ dataWritten = {}
  /\ dataWritten' = StrncpyWrites(bufferSizeArg) \cup TerminatorWrite(bufferSizeArg)
  /\ UNCHANGED <<inputs, clientVars, serverVars, chanVars, histVars, lossVars,
                 ckVars, bufferSizeArg, listVars>>

SendPacketSpec == InitSendPacket /\ [][WritePacketData]_vars

\* C19: for every MSS of 1..MAX_MSS and every bufferSize of 0..MSS, every
\* index of packet.data that sendPacket writes lies in 0..MAX_MSS-1, the
\* index bufferSize of the terminator at bufferSize = MAX_MSS included.
C19_WritesInsideData ==
  (mss \in 1..MAX_MSS /\ bufferSizeArg \in 0..mss) =>
    dataWritten \subseteq 0..(MAX_MSS - 1)

\* ---------------------------------------------------------- arrayList.c
\* A size_t is held as the int of the same low bits, which is also what
\* passing it through the int parameter max of setData makes of it: -1 is
\* SIZE_MAX.  Comparisons of size_t values are unsigned.
ULess(a, b) == IF (a < 0) = (b < 0) THEN a < b ELSE b < 0

\* sizeof( void * )
PointerSize == 8

\* sizeof( *list->data )
memorySize == PointerSize

\* the pointers a block of that many bytes has room for
SlotsOf(bytes) == bytes \div PointerSize

\* index i of list->data lies inside the memory allocated for it
InsideData(i, slots) == 0 <= i /\ i < slots

\* how the process goes on after an access: past the end of the allocated
\* memory the behaviour is undefined, the process crashes or runs on
AfterAccess(inside) == IF inside THEN {"ok"} ELSE {"ok", "crashed"}

InitList ==
  /\ file = <<>>
  /\ mss = 1
  /\ numServers = 1
  /\ packetLossProb = [r \in Servers |-> 0]
  /\ InitClient
  /\ InitServers
  /\ InitRest
  /\ ckBuffer = <<>>
  /\ ckBit = -1
  /\ ckSums = <<>>
  /\ bufferSizeArg = 0
  /\ dataWritten = {}
  /\ listSize = 0
  /\ listSlots = 2
  /\ listWrite = -1
  /\ listPc = "ok"
  /\ listCalls = <<>>

\* add( list, elem )
add ==
  /\ listPc = "ok"
  /\ Len(listCalls) < MaxCalls
  /\ listCalls' = Append(listCalls, <<"add", 0, FALSE>>)
  /\ listSlots' = SlotsOf(memorySize)
  /\ listWrite' = listSize
  /\ listSize' = listSize + 1
  /\ listPc' \in AfterAccess(InsideData(listSize, listSlots'))
  /\ UNCHANGED <<inputs, clientVars, serverVars, chanVars, histVars, lossVars,
                 ckVars, pktVars>>

\* clear( list )
clear ==
  /\ listSize' = 0
  /\ listSlots' = 0

\* remove( list, index, freeit )
remove(index, freeit) ==
  /\ listPc = "ok"
  /\ Len(listCalls) < MaxCalls
  /\ listCalls' = Append(listCalls, <<"remove", index, freeit>>)
  /\ listWrite' = -1
  /\ IF ULess(listSize - 1, index)
       THEN UNCHANGED <<listSize, listSlots, listPc>>
     ELSE IF listSize = 1
       THEN clear /\ UNCHANGED listPc
     ELSE IF (freeit /\ listSlots = 0) \/ listSize < 0
       \* get reads through the NULL pointer, or the loop runs up to SIZE_MAX
       THEN listPc' = "crashed" /\ UNCHANGED <<listSize, listSlots>>
     ELSE /\ listPc' \in AfterAccess(/\ freeit => InsideData(index, listSlots)
                                      /\ \A i \in index..(listSize - 1) :
                                           InsideData(i, listSlots))
          /\ listSlots' = SlotsOf(memorySize)
          /\ listSize' = listSize - 1
  /\ UNCHANGED <<inputs, clientVars, serverVars, chanVars, histVars, lossVars,
                 ckVars, pktVars>>

ListNext ==
  \/ add
  \/ \E index \in 0..1 : \E freeit \in BOOLEAN : remove(index, freeit)

ListSpec == InitList /\ [][ListNext]_vars

\* C20: after createList and any sequence of add and remove calls the memory
\* at list->data has room for at least length(list) pointers, the slot add
\* has written (index = the old size) lies inside it, and remove on an empty
\* list leaves the size at 0 (the size never falls below 0).
C20_SlotsCoverLength ==
  listPc = "ok" =>
    /\ listSize >= 0
    /\ listSize <= listSlots
    /\ listWrite # -1 => InsideData(listWrite, listSlots)

====
